---- MODULE Spec2Model ----
(***************************************************************************)
(* A model of zmq4's Conn (src/conn.go): the ZMTP handshake, the frame     *)
(* codec (send / read), the command / message receive paths and the        *)
(* subscription set.                                                       *)
(*                                                                         *)
(* Bytes are the integers 0..255, byte strings are sequences of bytes and  *)
(* a transport direction is the sequence of bytes written and not yet      *)
(* read.  The transport is reliable and ordered: a write always succeeds   *)
(* and appends, a read takes bytes from the front and fails only at the    *)
(* end of a closed stream.                                                 *)
(*                                                                         *)
(* Six specifications share the module:                                    *)
(*   SpecFrame  one frame through send and one iteration of read           *)
(*   SpecWire   RecvMsg / RecvCmd fed by an arbitrary peer                 *)
(*   Spec       two connections in steady state (SendMsg, SendCmd,         *)
(*              RecvMsg, RecvCmd)                                          *)
(*   SpecOpen   Open on both ends of a fresh transport                     *)
(*   SpecSub    subscribe / subscribed under the connection's RWMutex      *)
(*   SpecDuplex one sender and one receiver on a connection, write by      *)
(*              write                                                      *)
(***************************************************************************)
EXTENDS Integers, Sequences, FiniteSets, TLC

(***************************************************************************)
(* Bounds of the model.                                                    *)
(***************************************************************************)
\* longest body sent through send in SpecFrame (covers 255 / 256)
MaxBodyLen == 257

(***************************************************************************)
(* State.                                                                  *)
(***************************************************************************)
VARIABLES
    \* SpecFrame: one frame through send and one iteration of read
    fPhase,     \* "off", "args", "sent", "read"
    fArgs,      \* the arguments of send and the mechanism of both ends
    fWire,      \* the bytes send wrote
    fGot        \* what the iteration of read returned

frameVars == <<fPhase, fArgs, fWire, fGot>>

VARIABLES
    \* SpecWire: one connection in steady state and an arbitrary peer
    wSec,       \* c.sec.Type()
    wIn,        \* c.rw, the bytes the peer wrote and c has not read
    wEof,       \* the peer has closed its end
    wOut,       \* c.rw, every byte c wrote
    wRet,       \* what the last RecvMsg / RecvCmd call returned, with the
                \* items it took from the transport and the bytes it wrote
    wPeer,      \* the items the peer wrote that are still unread (wIn, itemised)
    wSent,      \* history: the number of items the peer wrote
    wPings      \* history: the PING commands the peer wrote that RecvMsg took

wireVars == <<wSec, wIn, wEof, wOut, wRet, wPeer, wSent, wPings>>

VARIABLES
    \* Spec: two connections A and B in steady state on one transport
    cSec,       \* the mechanism both ends were opened with
    cWire,      \* cWire[e]: the bytes written to e that e has not read
    cOut,       \* history, cOut[e]: what e wrote, call by call
    cRecv       \* history, cRecv[e]: what e's RecvMsg / RecvCmd calls returned

connVars == <<cSec, cWire, cOut, cRecv>>

VARIABLES
    \* SpecOpen: Open on both ends of a fresh transport
    oCfg,       \* oCfg[e]: the arguments of e's Open (sec, sockType, server)
    oPc,        \* oPc[e]: where e's Open is
    oGreet,     \* oGreet[e]: the greetings written to e and not yet read
    oMeta,      \* oMeta[e]: the handshake metadata written to e, not yet read
    oPeer,      \* oPeer[e]: conn.Peer of e's connection
    oErr,       \* oErr[e]: the error e's Open returned
    oShook      \* history, oShook[e]: e invoked sec.Handshake

openVars == <<oCfg, oPc, oGreet, oMeta, oPeer, oErr, oShook>>

VARIABLES
    \* SpecSub: subscribe and subscribed called concurrently on one connection
    sTopics,    \* conn.topics
    sWriter,    \* conn.mu: the caller that holds or awaits the write lock, 0 if none
    sReaders,   \* conn.mu: the callers that hold the read lock
    sPc,        \* sPc[t]: where caller t is
    sCall,      \* sCall[t]: t's call, with its locals and its result
    sLog,       \* history: the first frame of every subscribe that reached its switch
    sCalls      \* history: the number of calls made

subVars == <<sTopics, sWriter, sReaders, sPc, sCall, sLog, sCalls>>

VARIABLES
    \* SpecDuplex: one connection in steady state, driven by one sender and
    \* one receiver at the same time, write by write
    dSec,       \* c.sec.Type()
    dIn,        \* c.rw, the bytes the peer wrote and c has not read
    dOut,       \* c.rw, history: the writes c made, in order
    dSendQ,     \* the writes the sender's call has still to make
    dRecvQ,     \* the writes the receiver's call has still to make
    dCalls      \* history: the calls made by the sender, receiver and peer

duplexVars == <<dSec, dIn, dOut, dSendQ, dRecvQ, dCalls>>

vars == <<frameVars, wireVars, connVars, openVars, subVars, duplexVars>>

(***************************************************************************)
(* Bytes and byte strings.                                                 *)
(***************************************************************************)
Byte == 0..255

\* the bytes of s from position from on, empty when from is past the end
From(s, from) == IF from > Len(s) THEN <<>> ELSE SubSeq(s, from, Len(s))

\* the first n bytes of s
Take(s, n) == IF n = 0 THEN <<>> ELSE SubSeq(s, 1, n)

\* bit m (a power of two) of byte b is set
BitSet(b, m) == (b \div m) % 2 = 1

\* b ^ m for a single-bit mask m
XorBit(b, m) == IF BitSet(b, m) THEN b - m ELSE b + m

(***************************************************************************)
(* Frame flag bits and their accessors.                                    *)
(***************************************************************************)
hasMoreBitFlag == 1
isCommandBitFlag == 2
isLongBitFlag == 4

hasMore(fl) == BitSet(fl, hasMoreBitFlag)
isCommand(fl) == BitSet(fl, isCommandBitFlag)
isLong(fl) == BitSet(fl, isLongBitFlag)

(***************************************************************************)
(* 64-bit unsigned lengths are kept as their 8 big-endian bytes, so that   *)
(* lengths beyond the checker's integers keep their value.                 *)
(***************************************************************************)
\* binary.BigEndian.PutUint64 of a length below 2^31
PutUint64(n) ==
    [i \in 1..8 |->
        CASE i <= 4 -> 0
          [] i = 5 -> (n \div 16777216) % 256
          [] i = 6 -> (n \div 65536) % 256
          [] i = 7 -> (n \div 256) % 256
          [] OTHER -> n % 256]

RECURSIVE U64GtFrom(_, _, _)
U64GtFrom(a, b, i) ==
    IF i > 8 THEN FALSE
    ELSE IF a[i] # b[i] THEN a[i] > b[i]
    ELSE U64GtFrom(a, b, i + 1)

\* a > b for two 8-byte big-endian numbers
U64Gt(a, b) == U64GtFrom(a, b, 1)

\* math.MaxInt64 as 8 big-endian bytes
maxInt64 == <<127, 255, 255, 255, 255, 255, 255, 255>>

\* the number fits in 24 bits
U64Small(a) == \A i \in 1..5 : a[i] = 0

\* its value, when it fits in 24 bits
U64Val(a) == a[6] * 65536 + a[7] * 256 + a[8]

(***************************************************************************)
(* Security mechanisms (the Security interface).                           *)
(***************************************************************************)
NullSecurity == "NULL"
PlainSecurity == "PLAIN"

\* the bytes Encrypt writes for data
Encrypt(sec, data) == data

\* the bytes Decrypt writes for data
Decrypt(sec, data) == data

\* a mechanism whose Decrypt refuses some data: a body that starts with 255
SealedSecurity == "SEALED"

\* Decrypt returns an error for data
decryptFails(sec, data) ==
    sec = SealedSecurity /\ data # <<>> /\ data[1] = 255

(***************************************************************************)
(* Conn.send: the bytes one call writes to the transport.                  *)
(***************************************************************************)
\* a threshold one too high
isLongSizeLate(size) == size > 256

\* isLong := size > 255
isLongSize(size) == size > 255

\* the header bytes: hdr[:hsz]
sendHdr(isCmd, body, flag) ==
    LET size == Len(body)
        long == isLongSize(size)
        f1 == IF long THEN XorBit(flag, isLongBitFlag) ELSE flag
        f2 == IF isCmd THEN XorBit(f1, isCommandBitFlag) ELSE f1
    IN  IF long THEN <<f2>> \o PutUint64(size) ELSE <<f2, size % 256>>

\* the two writes of send: c.rw.Write(hdr[:hsz]), c.sec.Encrypt(c.rw, body)
sendWrites(sec, isCmd, body, flag) ==
    <<sendHdr(isCmd, body, flag), Encrypt(sec, body)>>

\* header, then the body through the mechanism's Encrypt
send(sec, isCmd, body, flag) == sendHdr(isCmd, body, flag) \o Encrypt(sec, body)

(***************************************************************************)
(* Conn.read.  readFrame is one iteration of its loop over the bytes w     *)
(* that are available, eof telling whether the stream has ended.  st is    *)
(* "ok", "err" or "block" (io.ReadFull waits for bytes that are not there  *)
(* yet); rest is what the iteration leaves unread.                         *)
(***************************************************************************)
\* the error of an io.ReadFull that found avail bytes and then the end
ShortRead(avail) == IF avail = 0 THEN "EOF" ELSE "ErrUnexpectedEOF"

\* a guard that lets every length through
overflowsNever(size) == FALSE

\* size > uint64(maxInt64)
overflows(size) == U64Gt(size, maxInt64)

\* a fast path that appends a slice it has not filled
fastPathEmpty(body) == <<>>

\* the fast path for NULL security: the frame is the body as read
fastPath(body) == body

readFrame(w, eof, sec) ==
    IF Len(w) < 2
    THEN [fl |-> 0, payload |-> <<>>,
          st |-> IF eof THEN "err" ELSE "block", err |-> ShortRead(Len(w)),
          rest |-> <<>>, nread |-> Len(w)]
    ELSE
    LET fl == w[1]
        hsz == IF isLong(fl) THEN 9 ELSE 2
    IN  IF Len(w) < hsz
        THEN [fl |-> fl, payload |-> <<>>,
              st |-> IF eof THEN "err" ELSE "block",
              err |-> ShortRead(Len(w) - 2), rest |-> <<>>, nread |-> Len(w)]
        ELSE
        LET size == IF isLong(fl) THEN SubSeq(w, 2, 9) ELSE PutUint64(w[2])
            avail == Len(w) - hsz
        IN  IF overflows(size)
            THEN [fl |-> fl, payload |-> <<>>, st |-> "err",
                  err |-> "errOverflow", rest |-> From(w, hsz + 1),
                  nread |-> hsz]
            ELSE IF U64Small(size) /\ U64Val(size) <= avail
            THEN LET body == SubSeq(w, hsz + 1, hsz + U64Val(size))
                 IN  IF sec # NullSecurity /\ decryptFails(sec, body)
                     THEN [fl |-> fl, payload |-> <<>>, st |-> "err",
                           err |-> "errDecrypt",
                           rest |-> From(w, hsz + U64Val(size) + 1),
                           nread |-> hsz + U64Val(size)]
                     ELSE [fl |-> fl,
                           payload |-> IF sec = NullSecurity THEN fastPath(body)
                                       ELSE Decrypt(sec, body),
                           st |-> "ok", err |-> "nil",
                           rest |-> From(w, hsz + U64Val(size) + 1),
                           nread |-> hsz + U64Val(size)]
            ELSE [fl |-> fl, payload |-> <<>>,
                  st |-> IF eof THEN "err" ELSE "block",
                  err |-> ShortRead(avail), rest |-> <<>>, nread |-> Len(w)]

\* a kind that only the frame just read decides
accIsCmdLast(isCmd, fl) == isCommand(fl)

\* isCmd = isCmd || fl.isCommand()
accIsCmd(isCmd, fl) == isCmd \/ isCommand(fl)

\* the whole loop of read: st is "block" or "done"
RECURSIVE readLoop(_, _, _, _, _, _)
readLoop(w, eof, sec, frames, isCmd, n) ==
    LET r == readFrame(w, eof, sec)
    IN  IF r.st = "block"
        THEN [st |-> "block", msg |-> [Frames |-> <<>>, Type |-> "UsrMsg", err |-> "nil"],
              rest |-> w, nread |-> 0]
        ELSE IF r.st = "err"
        THEN [st |-> "done",
              msg |-> [Frames |-> frames, Type |-> "UsrMsg", err |-> r.err],
              rest |-> r.rest, nread |-> n + r.nread]
        ELSE IF hasMore(r.fl)
        THEN readLoop(r.rest, eof, sec, Append(frames, r.payload),
                      accIsCmd(isCmd, r.fl), n + r.nread)
        ELSE [st |-> "done",
              msg |-> [Frames |-> Append(frames, r.payload),
                       Type |-> IF accIsCmd(isCmd, r.fl) THEN "CmdMsg"
                                ELSE "UsrMsg",
                       err |-> "nil"],
              rest |-> r.rest, nread |-> n + r.nread]

read(w, eof, sec) == readLoop(w, eof, sec, <<>>, FALSE, 0)

(***************************************************************************)
(* Commands: Cmd, its wire form and the two names the connection knows.    *)
(***************************************************************************)
CmdPing == <<80, 73, 78, 71>>
CmdPong == <<80, 79, 78, 71>>

NoCmd == [Name |-> <<>>, Body |-> <<>>]

\* Cmd.marshalZMTP: name length, name, body
marshalZMTP(cmd) ==
    IF Len(cmd.Name) > 255
    THEN [err |-> "ErrBadCmd", buf |-> <<>>]
    ELSE [err |-> "nil", buf |-> <<Len(cmd.Name)>> \o cmd.Name \o cmd.Body]

\* Cmd.unmarshalZMTP
unmarshalZMTP(data) ==
    IF Len(data) = 0
    THEN [err |-> "ErrUnexpectedEOF", cmd |-> NoCmd]
    ELSE IF data[1] > Len(data) - 1
    THEN [err |-> "ErrBadCmd", cmd |-> NoCmd]
    ELSE [err |-> "nil",
          cmd |-> [Name |-> SubSeq(data, 2, data[1] + 1),
                   Body |-> From(data, data[1] + 2)]]

\* Msg.isCmd
isCmdMsg(msg) == msg.Type = "CmdMsg"

\* a SendCmd that forgets to mark its frame as a command
SendCmdUnmarked(sec, name, body) ==
    LET m == marshalZMTP([Name |-> name, Body |-> body])
    IN  IF m.err # "nil" THEN [err |-> m.err, out |-> <<>>]
        ELSE [err |-> "nil", out |-> send(sec, FALSE, m.buf, 0)]

\* Conn.SendCmd: the error it returns and the bytes it writes
SendCmd(sec, name, body) ==
    LET m == marshalZMTP([Name |-> name, Body |-> body])
    IN  IF m.err # "nil" THEN [err |-> m.err, out |-> <<>>]
        ELSE [err |-> "nil", out |-> send(sec, TRUE, m.buf, 0)]

\* a flag that marks every frame, the last one too
moreFlagAll(i, nframes) == XorBit(0, hasMoreBitFlag)

\* the flag SendMsg gives frame i (from 0) of nframes
moreFlag(i, nframes) ==
    IF i < nframes - 1 THEN XorBit(0, hasMoreBitFlag) ELSE 0

\* Conn.SendMsg: the bytes it writes for msg.Frames, from frame i on
RECURSIVE SendMsgFrom(_, _, _)
SendMsgFrom(sec, frames, i) ==
    IF i >= Len(frames) THEN <<>>
    ELSE send(sec, FALSE, frames[i + 1], moreFlag(i, Len(frames)))
         \o SendMsgFrom(sec, frames, i + 1)

SendMsg(sec, frames) == SendMsgFrom(sec, frames, 0)

(***************************************************************************)
(* Conn.RecvMsg and Conn.RecvCmd on a message rd that read returned:       *)
(* what the call returns and the bytes it writes.                          *)
(***************************************************************************)
\* a check that lets a command of several frames through
cmdFrameCountLoose(n) == n >= 1

\* case 1 of the switch on len(msg.Frames) in RecvMsg
cmdFrameCountOK(n) == n = 1

\* a reply to every command, whatever its name
pingReplyAlways(sec, name) == SendCmd(sec, CmdPong, <<>>)

\* the switch on cmd.Name: the error of the reply and the bytes it writes
pingReply(sec, name) ==
    IF name = CmdPing THEN SendCmd(sec, CmdPong, <<>>)
    ELSE [err |-> "nil", out |-> <<>>]

\* a failed read answered with the zero message
readFailedEmpty(msg) ==
    [msg |-> [Frames |-> <<>>, Type |-> "UsrMsg", err |-> "nil"],
     err |-> msg.err, out |-> <<>>]

\* return msg, errors.WithStack(msg.err)
readFailed(msg) == [msg |-> msg, err |-> msg.err, out |-> <<>>]

\* a replacement that keeps one frame for an empty body too
cmdFramesAlways(body) == <<body>>

\* the switch on len(cmd.Body): the frames of the returned command message
cmdFrames(body) == IF Len(body) = 0 THEN <<>> ELSE <<body>>

RecvMsg(sec, msg) ==
    IF msg.err # "nil"
    THEN readFailed(msg)
    ELSE IF ~isCmdMsg(msg)
    THEN [msg |-> msg, err |-> "nil", out |-> <<>>]
    ELSE IF Len(msg.Frames) = 0
    THEN [msg |-> [msg EXCEPT !.err = "empty command"],
          err |-> "empty command", out |-> <<>>]
    ELSE IF ~cmdFrameCountOK(Len(msg.Frames))
    THEN [msg |-> [msg EXCEPT !.err = "invalid length command"],
          err |-> "invalid length command", out |-> <<>>]
    ELSE
    LET u == unmarshalZMTP(msg.Frames[1])
    IN  IF u.err # "nil"
        THEN [msg |-> [msg EXCEPT !.err = u.err], err |-> u.err, out |-> <<>>]
        ELSE
        LET p == pingReply(sec, u.cmd.Name)
        IN  IF p.err # "nil"
            THEN [msg |-> [msg EXCEPT !.err = p.err], err |-> p.err,
                  out |-> p.out]
            ELSE [msg |-> [msg EXCEPT !.Frames = cmdFrames(u.cmd.Body)],
                  err |-> "nil", out |-> p.out]

\* a check that takes every message for a command
notCmdNever(msg) == FALSE

\* !msg.isCmd() in RecvCmd
notCmd(msg) == ~isCmdMsg(msg)

RecvCmd(msg) ==
    IF msg.err # "nil"
    THEN [cmd |-> NoCmd, err |-> msg.err]
    ELSE IF notCmd(msg)
    THEN [cmd |-> NoCmd, err |-> "ErrBadFrame"]
    ELSE IF Len(msg.Frames) = 0
    THEN [cmd |-> NoCmd, err |-> "empty command"]
    ELSE IF Len(msg.Frames) # 1
    THEN [cmd |-> NoCmd, err |-> "invalid length command"]
    ELSE
    LET u == unmarshalZMTP(msg.Frames[1])
    IN  IF u.err # "nil"
        THEN [cmd |-> NoCmd, err |-> u.err]
        ELSE [cmd |-> u.cmd, err |-> "nil"]

(***************************************************************************)
(* Socket types and their compatibility.                                   *)
(***************************************************************************)
SocketTypes ==
    {"REQ", "REP", "DEALER", "ROUTER", "PUB", "SUB", "XPUB", "XSUB", "PUSH",
     "PULL", "PAIR", "STREAM"}

\* the pairs of the compatibility matrix, as listed
Listed ==
    {<<"REQ", "REP">>,
     <<"DEALER", "REP">>, <<"DEALER", "DEALER">>, <<"DEALER", "ROUTER">>,
     <<"ROUTER", "REQ">>, <<"ROUTER", "REP">>, <<"ROUTER", "DEALER">>,
     <<"ROUTER", "ROUTER">>,
     <<"PUB", "SUB">>, <<"PUB", "XSUB">>, <<"SUB", "PUB">>, <<"SUB", "XPUB">>,
     <<"XPUB", "SUB">>, <<"XPUB", "XSUB">>, <<"XSUB", "PUB">>,
     <<"XSUB", "XPUB">>,
     <<"PUSH", "PULL">>, <<"PULL", "PUSH">>, <<"PAIR", "PAIR">>}

\* sck.IsCompatible(peer): peer is in the row the matrix lists for sck
IsCompatible(sck, peer) == <<sck, peer>> \in Listed

(***************************************************************************)
(* The greeting.                                                           *)
(***************************************************************************)
\* len(send.Mechanism)
MechanismLen == 20

\* copy(send.Mechanism[:], kind) into the zeroed field
copyMechanism(kind) ==
    [i \in 1..MechanismLen |-> IF i <= Len(kind) THEN kind[i] ELSE 0]

\* asString: the field without its padding
RECURSIVE asString(_)
asString(field) ==
    IF field = <<>> THEN <<>>
    ELSE IF field[Len(field)] = 0 THEN asString(Take(field, Len(field) - 1))
    ELSE field

\* asBool
asBool(b) ==
    IF b = 0 THEN [v |-> FALSE, err |-> "nil"]
    ELSE IF b = 1 THEN [v |-> TRUE, err |-> "nil"]
    ELSE [v |-> FALSE, err |-> "invalid boolean"]

\* the greeting greet builds: signature, version and mechanism are set, the
\* Server field keeps its zero value
greeting(kind, server) == [Mechanism |-> copyMechanism(kind), Server |-> 0]

\* !peer.IsCompatible(conn.typ)
incompatible(peer, typ) == ~IsCompatible(peer, typ)

\* a check that lets every name through
kindMismatchNever(peerKind, kind) == FALSE

\* peerKind != kind
kindMismatch(peerKind, kind) == peerKind # kind

(***************************************************************************)
(* SpecFrame: send writes one frame, one iteration of read decodes it.     *)
(***************************************************************************)
\* a body of the given length whose bytes differ from place to place
PatternBody(len, seed) == [i \in 1..len |-> (seed + 7 * i) % 256]

Mechanisms == {NullSecurity, PlainSecurity}

NoArgs == [sec |-> NullSecurity, isCommand |-> FALSE, body |-> <<>>, flag |-> 0]

NoGot == readFrame(<<>>, FALSE, NullSecurity)

FrameOff == fPhase = "off" /\ fArgs = NoArgs /\ fWire = <<>> /\ fGot = NoGot

NoMsg == [Frames |-> <<>>, Type |-> "UsrMsg", err |-> "nil"]

NoRet ==
    [op |-> "none", msg |-> NoMsg, cmd |-> NoCmd, err |-> "nil",
     took |-> <<>>, wrote |-> <<>>, left |-> <<>>, unread |-> <<>>]

WireOff ==
    /\ wSec = NullSecurity /\ wIn = <<>> /\ wEof = FALSE /\ wOut = <<>>
    /\ wRet = NoRet /\ wPeer = <<>> /\ wSent = 0 /\ wPings = 0

Ends == {"A", "B"}

Other(e) == IF e = "A" THEN "B" ELSE "A"

NoMeta == [sockType |-> ""]

NoPeer == [Server |-> FALSE, Meta |-> NoMeta]

\* an error of the given kind; the incompatibility error names two types
Err(kind) == [kind |-> kind, peer |-> "", typ |-> ""]

OpenOff ==
    /\ oCfg = [e \in Ends |-> [sec |-> <<>>, typ |-> "", server |-> FALSE]]
    /\ oPc = [e \in Ends |-> "off"]
    /\ oGreet = [e \in Ends |-> <<>>]
    /\ oMeta = [e \in Ends |-> <<>>]
    /\ oPeer = [e \in Ends |-> NoPeer]
    /\ oErr = [e \in Ends |-> Err("nil")]
    /\ oShook = [e \in Ends |-> FALSE]

\* the callers of subscribe and subscribed
Callers == {1, 2, 3}

NoCall == [op |-> "none", msg |-> <<>>, topic |-> <<>>, rest |-> {},
           res |-> FALSE]

DuplexOff ==
    /\ dSec = NullSecurity
    /\ dIn = <<>>
    /\ dOut = <<>>
    /\ dSendQ = <<>>
    /\ dRecvQ = <<>>
    /\ dCalls = [send |-> 0, recv |-> 0, peer |-> 0]

SubOff ==
    /\ sTopics = {}
    /\ sWriter = 0
    /\ sReaders = {}
    /\ sPc = [t \in Callers |-> "off"]
    /\ sCall = [t \in Callers |-> NoCall]
    /\ sLog = <<>>
    /\ sCalls = 0

ConnOff ==
    /\ cSec = NullSecurity
    /\ cWire = [e \in Ends |-> <<>>]
    /\ cOut = [e \in Ends |-> <<>>]
    /\ cRecv = [e \in Ends |-> <<>>]

FrameInit ==
    /\ fPhase = "args"
    /\ \E len \in 0..MaxBodyLen, seed \in {0, 131}, sec \in Mechanisms,
          cmd \in BOOLEAN, flag \in {0, hasMoreBitFlag} :
            fArgs = [sec |-> sec, isCommand |-> cmd,
                     body |-> PatternBody(len, seed), flag |-> flag]
    /\ fWire = <<>>
    /\ fGot = NoGot
    /\ WireOff
    /\ ConnOff
    /\ OpenOff
    /\ SubOff
    /\ DuplexOff

FrameSend ==
    /\ fPhase = "args"
    /\ fWire' = fWire \o send(fArgs.sec, fArgs.isCommand, fArgs.body, fArgs.flag)
    /\ fPhase' = "sent"
    /\ UNCHANGED <<fArgs, fGot, wireVars, connVars, openVars, subVars, duplexVars>>

FrameRead ==
    /\ fPhase = "sent"
    /\ LET r == readFrame(fWire, FALSE, fArgs.sec)
       IN  /\ r.st # "block"
           /\ fGot' = r
           /\ fWire' = r.rest
    /\ fPhase' = "read"
    /\ UNCHANGED <<fArgs, wireVars, connVars, openVars, subVars, duplexVars>>

FrameNext == FrameSend \/ FrameRead

SpecFrame == FrameInit /\ [][FrameNext]_vars

(***************************************************************************)
(* C1: a frame written by send and decoded by read comes back with the     *)
(* same body and the same more / command flags and leaves nothing unread;  *)
(* the header is the long form (long bit set, 8 big-endian length bytes)   *)
(* exactly when the body is longer than 255 bytes.                         *)
(***************************************************************************)
C1_LongFormOnWire(w, L) ==
    /\ isLong(w[1])
    /\ Len(w) = 9 + L
    /\ \A i \in 2..6 : w[i] = 0
    /\ w[7] * 65536 + w[8] * 256 + w[9] = L

C1_ShortFormOnWire(w, L) ==
    /\ ~isLong(w[1])
    /\ Len(w) = 2 + L
    /\ w[2] = L

C1_HeaderForm ==
    fPhase = "sent" =>
        LET L == Len(fArgs.body)
        IN  IF L > 255 THEN C1_LongFormOnWire(fWire, L)
            ELSE C1_ShortFormOnWire(fWire, L)

C1_RoundTrip ==
    fPhase = "read" =>
        /\ fGot.st = "ok"
        /\ fGot.payload = fArgs.body
        /\ hasMore(fGot.fl) = (fArgs.flag = hasMoreBitFlag)
        /\ isCommand(fGot.fl) = fArgs.isCommand
        /\ isLong(fGot.fl) = (Len(fArgs.body) > 255)
        /\ fWire = <<>>

C1_FrameRoundTrip == C1_HeaderForm /\ C1_RoundTrip

\* a 256-byte command frame with the more bit has been sent and read back
C1_Witness ==
    /\ fPhase = "read"
    /\ Len(fArgs.body) = 256
    /\ fArgs.isCommand
    /\ fArgs.flag = hasMoreBitFlag
    /\ fGot.payload = fArgs.body

(***************************************************************************)
(* SpecWire: a connection in steady state reads what an arbitrary peer     *)
(* writes: frames with any flag bits, headers that declare a length above  *)
(* the maximum, a frame cut short by the end of the stream.                *)
(***************************************************************************)
\* the peer writes at most this many items
MaxPeerWrites == 2

\* command payloads: PING, PING with a body, a command X, and a payload
\* whose name length runs past its end
PingPayload == <<4>> \o CmdPing
PingBodyPayload == <<4>> \o CmdPing \o <<9>>
XPayload == <<1, 88>>
BadPayload == <<3, 88>>

\* the frames the peer writes, as <<flag byte, body>>: every combination of
\* the more and command bits on an empty body, on PING and on X, the other
\* payloads as commands, and the long form on a short body
PeerFrames ==
    ((0..3) \X {<<>>, PingPayload, XPayload})
    \cup {<<2, PingBodyPayload>>, <<0, PingBodyPayload>>, <<2, BadPayload>>}
    \cup {<<5, XPayload>>, <<6, XPayload>>}

\* the frames the peer cuts short, and where
ShortFrames == {<<0, XPayload>>, <<5, XPayload>>}
ShortCuts == {1, 2, 3, 5, 9, 10}

\* long headers that declare a length above the signed 64-bit maximum
OverHeaders ==
    {<<4, <<128, 0, 0, 0, 0, 0, 0, 0>>>>,
     <<7, <<255, 255, 255, 255, 255, 255, 255, 255>>>>}

\* the bytes of a frame with the given flag byte, declared length and body
Render(fl, size, body) ==
    <<fl>> \o (IF isLong(fl) THEN size ELSE <<size[8]>>) \o body

\* frames whose body the sealed mechanism refuses
GarbledFrames == {<<0, <<255>>>>, <<3, <<255, 88>>>>}

WireInit ==
    /\ wSec \in Mechanisms \cup {SealedSecurity}
    /\ wIn = <<>> /\ wEof = FALSE /\ wOut = <<>>
    /\ wRet = NoRet /\ wPeer = <<>> /\ wSent = 0 /\ wPings = 0
    /\ FrameOff
    /\ ConnOff
    /\ OpenOff
    /\ SubOff
    /\ DuplexOff

\* the peer writes one well-formed frame
WirePeerFrame ==
    /\ ~wEof
    /\ wSent < MaxPeerWrites
    /\ wSent' = wSent + 1
    /\ \E f \in PeerFrames :
        LET fl == f[1]
            body == f[2]
            bytes == Render(fl, PutUint64(Len(body)), body)
        IN  /\ wIn' = wIn \o bytes
            /\ wPeer' = Append(wPeer, [kind |-> "frame", fl |-> fl,
                                       body |-> body, bytes |-> bytes])
    /\ UNCHANGED <<wSec, wEof, wOut, wRet, wPings, frameVars, connVars, openVars, subVars, duplexVars>>

\* the peer writes a long header that declares a length above the maximum,
\* and goes on with whatever it likes
WirePeerOversize ==
    /\ ~wEof
    /\ wSent < MaxPeerWrites
    /\ wSent' = wSent + 1
    /\ \E h \in OverHeaders :
        LET fl == h[1]
            bytes == Render(fl, h[2], <<>>)
        IN  /\ wIn' = wIn \o bytes
            /\ wPeer' = Append(wPeer, [kind |-> "oversize", fl |-> fl,
                                       body |-> <<>>, bytes |-> bytes])
    /\ UNCHANGED <<wSec, wEof, wOut, wRet, wPings, frameVars, connVars, openVars, subVars, duplexVars>>

\* the peer writes a frame that the connection's mechanism does not decrypt
WirePeerGarbled ==
    /\ ~wEof
    /\ wSec = SealedSecurity
    /\ wSent < MaxPeerWrites
    /\ wSent' = wSent + 1
    /\ \E f \in GarbledFrames :
        LET fl == f[1]
            body == f[2]
            bytes == Render(fl, PutUint64(Len(body)), body)
        IN  /\ wIn' = wIn \o bytes
            /\ wPeer' = Append(wPeer, [kind |-> "garbled", fl |-> fl,
                                       body |-> body, bytes |-> bytes])
    /\ UNCHANGED <<wSec, wEof, wOut, wRet, wPings, frameVars, connVars, openVars, subVars, duplexVars>>

\* the peer writes the first bytes of a frame and closes
WirePeerShort ==
    /\ ~wEof
    /\ wSent < MaxPeerWrites
    /\ wSent' = wSent + 1
    /\ \E f \in ShortFrames :
        LET fl == f[1]
            body == f[2]
            whole == Render(fl, PutUint64(Len(body)), body)
        IN  \E cut \in ShortCuts \cap (1..(Len(whole) - 1)) :
            /\ wIn' = wIn \o Take(whole, cut)
            /\ wPeer' = Append(wPeer, [kind |-> "short", fl |-> fl,
                                       body |-> body, bytes |-> Take(whole, cut)])
    /\ wEof' = TRUE
    /\ UNCHANGED <<wSec, wOut, wRet, wPings, frameVars, connVars, openVars, subVars, duplexVars>>

\* the peer closes its end
WirePeerClose ==
    /\ ~wEof
    /\ wEof' = TRUE
    /\ UNCHANGED <<wSec, wIn, wOut, wRet, wPeer, wSent, wPings, frameVars, connVars, openVars, subVars, duplexVars>>

\* the number of leading items of q that make up the first n bytes
RECURSIVE ItemsIn(_, _)
ItemsIn(q, n) ==
    IF n <= 0 \/ q = <<>> THEN 0
    ELSE 1 + ItemsIn(Tail(q), n - Len(q[1].bytes))

\* the items are one well-formed command frame that carries the name PING
IsPing(items) ==
    /\ Len(items) = 1
    /\ items[1].kind = "frame"
    /\ items[1].fl \in {2, 6}
    /\ Len(items[1].body) >= 5
    /\ SubSeq(items[1].body, 1, 5) = <<4, 80, 73, 78, 71>>

WireRecvMsg ==
    LET rd == read(wIn, wEof, wSec)
        r == RecvMsg(wSec, rd.msg)
        k == ItemsIn(wPeer, rd.nread)
    IN  /\ rd.st = "done"
        /\ wIn' = rd.rest
        /\ wOut' = wOut \o r.out
        /\ wRet' = [op |-> "RecvMsg", msg |-> r.msg, cmd |-> NoCmd,
                    err |-> r.err, took |-> Take(wPeer, k), wrote |-> r.out,
                    left |-> rd.rest, unread |-> From(wPeer, k + 1)]
        /\ wPeer' = From(wPeer, k + 1)
        /\ wPings' = wPings + (IF IsPing(Take(wPeer, k)) THEN 1 ELSE 0)
        /\ UNCHANGED <<wSec, wEof, wSent, frameVars, connVars, openVars, subVars, duplexVars>>

WireRecvCmd ==
    LET rd == read(wIn, wEof, wSec)
        r == RecvCmd(rd.msg)
        k == ItemsIn(wPeer, rd.nread)
    IN  /\ rd.st = "done"
        /\ wIn' = rd.rest
        /\ wRet' = [op |-> "RecvCmd", msg |-> NoMsg, cmd |-> r.cmd,
                    err |-> r.err, took |-> Take(wPeer, k), wrote |-> <<>>,
                    left |-> rd.rest, unread |-> From(wPeer, k + 1)]
        /\ wPeer' = From(wPeer, k + 1)
        /\ UNCHANGED <<wSec, wEof, wOut, wSent, wPings, frameVars, connVars, openVars, subVars, duplexVars>>

WireNext ==
    \/ WirePeerFrame
    \/ WirePeerOversize
    \/ WirePeerGarbled
    \/ WirePeerShort
    \/ WirePeerClose
    \/ WireRecvMsg
    \/ WireRecvCmd

SpecWire == WireInit /\ [][WireNext]_vars

(***************************************************************************)
(* Spec: the connections A and B of one transport, both opened, each       *)
(* calling SendMsg, SendCmd, RecvMsg and RecvCmd, one call at a time per   *)
(* direction.                                                              *)
(***************************************************************************)
\* the two ends make at most this many SendMsg / SendCmd calls together
MaxSends == 2

\* the messages given to SendMsg, as their frames
SendMsgs ==
    {<<>>, <<<<>>>>, <<PingPayload>>, <<<<7>>, <<>>>>, <<PingPayload, <<7>>>>,
     <<<<7>>, <<8>>, PingPayload>>}

\* the commands given to SendCmd, as <<name, body>>: PING, PING with a
\* body, PONG, a command X, X with a body that needs the long header, and a
\* name too long for its length byte
SendCmds ==
    {<<CmdPing, <<>>>>, <<CmdPing, <<9>>>>, <<CmdPong, <<>>>>, <<<<88>>, <<9>>>>,
     <<<<88>>, PatternBody(255, 0)>>, <<PatternBody(256, 0), <<>>>>}

NSent == Len(cOut["A"]) + Len(cOut["B"])

Init ==
    /\ cSec \in Mechanisms
    /\ cWire = [e \in Ends |-> <<>>]
    /\ cOut = [e \in Ends |-> <<>>]
    /\ cRecv = [e \in Ends |-> <<>>]
    /\ FrameOff
    /\ WireOff
    /\ OpenOff
    /\ SubOff
    /\ DuplexOff

\* e calls SendMsg
DoSendMsg(e) ==
    /\ NSent < MaxSends
    /\ \E frames \in SendMsgs :
        LET bytes == SendMsg(cSec, frames)
        IN  /\ cWire' = [cWire EXCEPT ![Other(e)] = @ \o bytes]
            /\ cOut' = [cOut EXCEPT ![e] =
                    Append(@, [via |-> "SendMsg", frames |-> frames,
                               name |-> <<>>, body |-> <<>>, bytes |-> bytes])]
    /\ UNCHANGED <<cSec, cRecv, frameVars, wireVars, openVars, subVars, duplexVars>>

\* e calls SendCmd
DoSendCmd(e) ==
    /\ NSent < MaxSends
    /\ \E c \in SendCmds :
        LET r == SendCmd(cSec, c[1], c[2])
        IN  /\ cWire' = [cWire EXCEPT ![Other(e)] = @ \o r.out]
            /\ cOut' = [cOut EXCEPT ![e] =
                    Append(@, [via |-> "SendCmd", frames |-> <<>>,
                               name |-> c[1], body |-> c[2], bytes |-> r.out])]
    /\ UNCHANGED <<cSec, cRecv, frameVars, wireVars, openVars, subVars, duplexVars>>

\* e calls RecvMsg; a PONG it writes goes to the other end
DoRecvMsg(e) ==
    LET rd == read(cWire[e], FALSE, cSec)
        r == RecvMsg(cSec, rd.msg)
    IN  /\ rd.st = "done"
        /\ cWire' = [cWire EXCEPT ![e] = rd.rest, ![Other(e)] = @ \o r.out]
        /\ cOut' = [cOut EXCEPT ![e] =
                IF r.out = <<>> THEN @
                ELSE Append(@, [via |-> "RecvMsg", frames |-> <<>>,
                                name |-> CmdPong, body |-> <<>>,
                                bytes |-> r.out])]
        /\ cRecv' = [cRecv EXCEPT ![e] =
                Append(@, [op |-> "RecvMsg", msg |-> r.msg, cmd |-> NoCmd,
                           err |-> r.err])]
        /\ UNCHANGED <<cSec, frameVars, wireVars, openVars, subVars, duplexVars>>

\* e calls RecvCmd
DoRecvCmd(e) ==
    LET rd == read(cWire[e], FALSE, cSec)
        r == RecvCmd(rd.msg)
    IN  /\ rd.st = "done"
        /\ cWire' = [cWire EXCEPT ![e] = rd.rest]
        /\ cRecv' = [cRecv EXCEPT ![e] =
                Append(@, [op |-> "RecvCmd", msg |-> NoMsg, cmd |-> r.cmd,
                           err |-> r.err])]
        /\ UNCHANGED <<cSec, cOut, frameVars, wireVars, openVars, subVars, duplexVars>>

Next ==
    \E e \in Ends :
        \/ DoSendMsg(e)
        \/ DoSendCmd(e)
        \/ DoRecvMsg(e)
        \/ DoRecvCmd(e)

Spec == Init /\ [][Next]_vars

(***************************************************************************)
(* SpecOpen: both ends of a fresh transport call Open.  Open blocks where  *)
(* it reads, so it runs in steps: greet writes the greeting, greet reads   *)
(* the peer's; the mechanism's Handshake writes this end's metadata and    *)
(* reads the peer's, after which init checks the socket types.             *)
(***************************************************************************)
\* mechanism names: NULL, PLAIN, a name that ends in a zero byte and a name
\* one byte longer than the greeting's field
SecNames ==
    {<<78, 85, 76, 76>>, <<80, 76, 65, 73, 78>>, <<78, 85, 76, 76, 0>>,
     [i \in 1..(MechanismLen + 1) |-> 65]}

\* the types given to Open: the socket types, and no type
OpenTypes == SocketTypes \cup {""}

OpenInit ==
    /\ oCfg \in [Ends -> [sec : SecNames, typ : OpenTypes, server : BOOLEAN]]
    /\ oPc = [e \in Ends |-> "start"]
    /\ oGreet = [e \in Ends |-> <<>>]
    /\ oMeta = [e \in Ends |-> <<>>]
    /\ oPeer = [e \in Ends |-> NoPeer]
    /\ oErr = [e \in Ends |-> Err("nil")]
    /\ oShook = [e \in Ends |-> FALSE]
    /\ FrameOff
    /\ WireOff
    /\ ConnOff
    /\ SubOff
    /\ DuplexOff

\* Open, init, and greet up to its read: the greeting is written unless the
\* mechanism name does not fit its field
OpenGreetWrite(e) ==
    /\ oPc[e] = "start"
    /\ LET kind == oCfg[e].sec
       IN  IF Len(kind) > MechanismLen
           THEN /\ oPc' = [oPc EXCEPT ![e] = "failed"]
                /\ oErr' = [oErr EXCEPT ![e] = Err("errSecMech")]
                /\ UNCHANGED oGreet
           ELSE /\ oPc' = [oPc EXCEPT ![e] = "greet_read"]
                /\ oGreet' = [oGreet EXCEPT ![Other(e)] =
                                 Append(@, greeting(kind, oCfg[e].server))]
                /\ UNCHANGED oErr
    /\ UNCHANGED <<oCfg, oMeta, oPeer, oShook, frameVars, wireVars, connVars, subVars, duplexVars>>

\* greet from its read on
OpenGreetRead(e) ==
    /\ oPc[e] = "greet_read"
    /\ oGreet[e] # <<>>
    /\ LET recv == Head(oGreet[e])
           peerKind == asString(recv.Mechanism)
           srv == asBool(recv.Server)
       IN  /\ oGreet' = [oGreet EXCEPT ![e] = Tail(@)]
           /\ IF kindMismatch(peerKind, oCfg[e].sec)
              THEN /\ oPc' = [oPc EXCEPT ![e] = "failed"]
                   /\ oErr' = [oErr EXCEPT ![e] = Err("errBadSec")]
                   /\ UNCHANGED oPeer
              ELSE IF srv.err # "nil"
              THEN /\ oPc' = [oPc EXCEPT ![e] = "failed"]
                   /\ oErr' = [oErr EXCEPT ![e] = Err(srv.err)]
                   /\ oPeer' = [oPeer EXCEPT ![e].Server = srv.v]
              ELSE /\ oPc' = [oPc EXCEPT ![e] = "handshake"]
                   /\ oPeer' = [oPeer EXCEPT ![e].Server = srv.v]
                   /\ UNCHANGED oErr
    /\ UNCHANGED <<oCfg, oMeta, oShook, frameVars, wireVars, connVars, subVars, duplexVars>>

\* sec.Handshake is invoked and sends this end's metadata
OpenHandshakeSend(e) ==
    /\ oPc[e] = "handshake"
    /\ oShook' = [oShook EXCEPT ![e] = TRUE]
    /\ oMeta' = [oMeta EXCEPT ![Other(e)] =
                    Append(@, [sockType |-> oCfg[e].typ])]
    /\ oPc' = [oPc EXCEPT ![e] = "handshake_read"]
    /\ UNCHANGED <<oCfg, oGreet, oPeer, oErr, frameVars, wireVars, connVars, subVars, duplexVars>>

\* sec.Handshake fails
OpenHandshakeFail(e) ==
    /\ oPc[e] \in {"handshake", "handshake_read"}
    /\ oShook' = [oShook EXCEPT ![e] = TRUE]
    /\ oPc' = [oPc EXCEPT ![e] = "failed"]
    /\ oErr' = [oErr EXCEPT ![e] = Err("handshake failed")]
    /\ UNCHANGED <<oCfg, oGreet, oMeta, oPeer, frameVars, wireVars, connVars, subVars, duplexVars>>

\* sec.Handshake reads the peer's metadata and returns; init checks the
\* peer's socket type and Open returns
OpenHandshakeDone(e) ==
    /\ oPc[e] = "handshake_read"
    /\ oMeta[e] # <<>>
    /\ LET meta == Head(oMeta[e])
           peer == meta.sockType
       IN  /\ oMeta' = [oMeta EXCEPT ![e] = Tail(@)]
           /\ oPeer' = [oPeer EXCEPT ![e].Meta = meta]
           /\ IF incompatible(peer, oCfg[e].typ)
              THEN /\ oPc' = [oPc EXCEPT ![e] = "failed"]
                   /\ oErr' = [oErr EXCEPT ![e] =
                                  [kind |-> "not compatible", peer |-> peer,
                                   typ |-> oCfg[e].typ]]
              ELSE /\ oPc' = [oPc EXCEPT ![e] = "open"]
                   /\ UNCHANGED oErr
    /\ UNCHANGED <<oCfg, oGreet, oShook, frameVars, wireVars, connVars, subVars, duplexVars>>

OpenNext ==
    \E e \in Ends :
        \/ OpenGreetWrite(e)
        \/ OpenGreetRead(e)
        \/ OpenHandshakeSend(e)
        \/ OpenHandshakeFail(e)
        \/ OpenHandshakeDone(e)

SpecOpen == OpenInit /\ [][OpenNext]_vars

(***************************************************************************)
(* SpecSub: callers invoke subscribe and subscribed on one connection, in  *)
(* any interleaving.  conn.mu is a sync.RWMutex: Lock first excludes other *)
(* writers and new readers, then waits for the readers that hold the lock  *)
(* to leave; RLock waits while a writer holds or awaits the lock.          *)
(***************************************************************************)
\* calls made in one run
MaxSubCalls == 3

\* the messages subscribe is called with: no frame, an empty first frame,
\* subscribe "", subscribe "A", unsubscribe "A", subscribe "B", and a first
\* byte that is neither 0 nor 1
SubMsgs ==
    {<<>>, <<<<>>>>, <<<<1>>>>, <<<<1, 65>>>>, <<<<0, 65>>>>,
     <<<<1, 66>>, <<9>>>>, <<<<2, 65>>>>}

\* the topics subscribed is called with: "ABC" and "B"
SubTopics == {<<65, 66, 67>>, <<66>>}

hasPrefixExact(topic, k) == topic = k

\* strings.HasPrefix(topic, k)
hasPrefix(topic, k) == Len(k) <= Len(topic) /\ Take(topic, Len(k)) = k

\* msg.Frames[0] and v[1:], v[0] of subscribe panic on these
subscribePanics(msg) == Len(msg) = 0 \/ Len(msg[1]) = 0

\* the switch of subscribe on v[0]
subscribeApply(topics, v) ==
    LET k == From(v, 2)
    IN  IF v[1] = 0 THEN topics \ {k}
        ELSE IF v[1] = 1 THEN topics \cup {k}
        ELSE topics

SubInit ==
    /\ sTopics = {}
    /\ sWriter = 0
    /\ sReaders = {}
    /\ sPc = [t \in Callers |-> "idle"]
    /\ sCall = [t \in Callers |-> NoCall]
    /\ sLog = <<>>
    /\ sCalls = 0
    /\ FrameOff
    /\ WireOff
    /\ ConnOff
    /\ OpenOff
    /\ DuplexOff

SubOthers == <<frameVars, wireVars, connVars, openVars, duplexVars>>

\* t calls subscribe(msg)
SubCallSubscribe(t) ==
    /\ sPc[t] = "idle"
    /\ sCalls < MaxSubCalls
    /\ \E msg \in SubMsgs :
           sCall' = [sCall EXCEPT ![t] = [NoCall EXCEPT !.op = "subscribe",
                                                        !.msg = msg]]
    /\ sPc' = [sPc EXCEPT ![t] = "lock"]
    /\ sCalls' = sCalls + 1
    /\ UNCHANGED <<sTopics, sWriter, sReaders, sLog, SubOthers>>

\* conn.mu.Lock(), first half: no other writer holds or awaits the lock
SubLock(t) ==
    /\ sPc[t] = "lock"
    /\ sWriter = 0
    /\ sWriter' = t
    /\ sPc' = [sPc EXCEPT ![t] = "lock_wait"]
    /\ UNCHANGED <<sTopics, sReaders, sCall, sLog, sCalls, SubOthers>>

\* conn.mu.Lock(), second half: the readers have left
SubLocked(t) ==
    /\ sPc[t] = "lock_wait"
    /\ sReaders = {}
    /\ sPc' = [sPc EXCEPT ![t] = "switch"]
    /\ UNCHANGED <<sTopics, sWriter, sReaders, sCall, sLog, sCalls, SubOthers>>

\* the body of subscribe under the lock; an index out of range panics and
\* leaves the lock held
SubSwitch(t) ==
    /\ sPc[t] = "switch"
    /\ LET msg == sCall[t].msg
       IN  IF subscribePanics(msg)
           THEN /\ sPc' = [sPc EXCEPT ![t] = "panicked"]
                /\ UNCHANGED <<sTopics, sLog>>
           ELSE /\ sTopics' = subscribeApply(sTopics, msg[1])
                /\ sLog' = Append(sLog, msg[1])
                /\ sPc' = [sPc EXCEPT ![t] = "unlock"]
    /\ UNCHANGED <<sWriter, sReaders, sCall, sCalls, SubOthers>>

\* conn.mu.Unlock(), and subscribe returns
SubUnlock(t) ==
    /\ sPc[t] = "unlock"
    /\ sWriter' = 0
    /\ sPc' = [sPc EXCEPT ![t] = "idle"]
    /\ UNCHANGED <<sTopics, sReaders, sCall, sLog, sCalls, SubOthers>>

\* t calls subscribed(topic)
SubCallSubscribed(t) ==
    /\ sPc[t] = "idle"
    /\ sCalls < MaxSubCalls
    /\ \E topic \in SubTopics :
           sCall' = [sCall EXCEPT ![t] = [NoCall EXCEPT !.op = "subscribed",
                                                        !.topic = topic]]
    /\ sPc' = [sPc EXCEPT ![t] = "rlock"]
    /\ sCalls' = sCalls + 1
    /\ UNCHANGED <<sTopics, sWriter, sReaders, sLog, SubOthers>>

\* conn.mu.RLock(); the range over conn.topics starts
SubRLock(t) ==
    /\ sPc[t] = "rlock"
    /\ sWriter = 0
    /\ sReaders' = sReaders \cup {t}
    /\ sCall' = [sCall EXCEPT ![t].rest = sTopics]
    /\ sPc' = [sPc EXCEPT ![t] = "range"]
    /\ UNCHANGED <<sTopics, sWriter, sLog, sCalls, SubOthers>>

\* one iteration of the range, over the keys in any order
SubRange(t) ==
    /\ sPc[t] = "range"
    /\ IF sCall[t].rest = {}
       THEN /\ sCall' = [sCall EXCEPT ![t].res = FALSE]
            /\ sPc' = [sPc EXCEPT ![t] = "runlock"]
       ELSE \E k \in sCall[t].rest :
                IF k = <<>> \/ hasPrefix(sCall[t].topic, k)
                THEN /\ sCall' = [sCall EXCEPT ![t].res = TRUE, ![t].rest = {}]
                     /\ sPc' = [sPc EXCEPT ![t] = "runlock"]
                ELSE /\ sCall' = [sCall EXCEPT ![t].rest = @ \ {k}]
                     /\ UNCHANGED sPc
    /\ UNCHANGED <<sTopics, sWriter, sReaders, sLog, sCalls, SubOthers>>

\* the deferred conn.mu.RUnlock(), and subscribed returns
SubRUnlock(t) ==
    /\ sPc[t] = "runlock"
    /\ sReaders' = sReaders \ {t}
    /\ sPc' = [sPc EXCEPT ![t] = "idle"]
    /\ UNCHANGED <<sTopics, sWriter, sCall, sLog, sCalls, SubOthers>>

SubNext ==
    \E t \in Callers :
        \/ SubCallSubscribe(t)
        \/ SubLock(t)
        \/ SubLocked(t)
        \/ SubSwitch(t)
        \/ SubUnlock(t)
        \/ SubCallSubscribed(t)
        \/ SubRLock(t)
        \/ SubRange(t)
        \/ SubRUnlock(t)

SpecSub == SubInit /\ [][SubNext]_vars

(***************************************************************************)
(* SpecDuplex: a connection in steady state with one goroutine in SendMsg  *)
(* or SendCmd and one in RecvMsg, a step being one Write on c.rw.  The     *)
(* transport takes each Write whole; Conn holds no lock around send.       *)
(***************************************************************************)
\* calls made by the sender, by the receiver, and writes made by the peer
MaxDuplexCalls == 2

\* the messages the sender gives to SendMsg, and the commands to SendCmd
DuplexMsgs == {<<<<7>>>>, <<<<>>, <<8>>>>}
DuplexCmds == {<<<<88>>, <<9>>>>}

\* what the peer writes: a PING command, an ordinary frame
DuplexPeerFrames == {<<2, PingPayload>>, <<0, <<7>>>>}

\* the writes of one send, labelled with the call and the frame they belong to
sendLabelled(by, call, frame, sec, isCmd, body, flag) ==
    LET w == sendWrites(sec, isCmd, body, flag)
    IN  <<[by |-> by, call |-> call, frame |-> frame, part |-> "hdr",
           bytes |-> w[1]],
          [by |-> by, call |-> call, frame |-> frame, part |-> "body",
           bytes |-> w[2]]>>

\* the writes of SendMsg, from frame i on
RECURSIVE SendMsgWrites(_, _, _, _)
SendMsgWrites(call, sec, frames, i) ==
    IF i >= Len(frames) THEN <<>>
    ELSE sendLabelled("sender", call, i, sec, FALSE, frames[i + 1],
                      moreFlag(i, Len(frames)))
         \o SendMsgWrites(call, sec, frames, i + 1)

DuplexInit ==
    /\ dSec \in Mechanisms
    /\ dIn = <<>>
    /\ dOut = <<>>
    /\ dSendQ = <<>>
    /\ dRecvQ = <<>>
    /\ dCalls = [send |-> 0, recv |-> 0, peer |-> 0]
    /\ FrameOff
    /\ WireOff
    /\ ConnOff
    /\ OpenOff
    /\ SubOff

DuplexOthers == <<frameVars, wireVars, connVars, openVars, subVars>>

\* the peer writes a frame
DuplexPeerWrite ==
    /\ dCalls.peer < MaxDuplexCalls
    /\ \E f \in DuplexPeerFrames :
           dIn' = dIn \o Render(f[1], PutUint64(Len(f[2])), f[2])
    /\ dCalls' = [dCalls EXCEPT !.peer = @ + 1]
    /\ UNCHANGED <<dSec, dOut, dSendQ, dRecvQ, DuplexOthers>>

\* the sender calls SendMsg
DuplexSendMsg ==
    /\ dSendQ = <<>>
    /\ dCalls.send < MaxDuplexCalls
    /\ \E frames \in DuplexMsgs :
           dSendQ' = SendMsgWrites(dCalls.send + 1, dSec, frames, 0)
    /\ dCalls' = [dCalls EXCEPT !.send = @ + 1]
    /\ UNCHANGED <<dSec, dIn, dOut, dRecvQ, DuplexOthers>>

\* the sender calls SendCmd
DuplexSendCmd ==
    /\ dSendQ = <<>>
    /\ dCalls.send < MaxDuplexCalls
    /\ \E c \in DuplexCmds :
        LET m == marshalZMTP([Name |-> c[1], Body |-> c[2]])
        IN  dSendQ' = IF m.err # "nil" THEN <<>>
                      ELSE sendLabelled("sender", dCalls.send + 1, 0, dSec,
                                        TRUE, m.buf, 0)
    /\ dCalls' = [dCalls EXCEPT !.send = @ + 1]
    /\ UNCHANGED <<dSec, dIn, dOut, dRecvQ, DuplexOthers>>

\* the next Write of the sender's call
DuplexSendWrite ==
    /\ dSendQ # <<>>
    /\ dOut' = Append(dOut, Head(dSendQ))
    /\ dSendQ' = Tail(dSendQ)
    /\ UNCHANGED <<dSec, dIn, dRecvQ, dCalls, DuplexOthers>>

\* the receiver calls RecvMsg: read, and the PONG of a PING still to write
DuplexRecvMsg ==
    /\ dRecvQ = <<>>
    /\ dCalls.recv < MaxDuplexCalls
    /\ LET rd == read(dIn, FALSE, dSec)
           r == RecvMsg(dSec, rd.msg)
           m == marshalZMTP([Name |-> CmdPong, Body |-> <<>>])
       IN  /\ rd.st = "done"
           /\ dIn' = rd.rest
           /\ dRecvQ' = IF r.out = <<>> THEN <<>>
                        ELSE sendLabelled("receiver", dCalls.recv + 1, 0, dSec,
                                          TRUE, m.buf, 0)
    /\ dCalls' = [dCalls EXCEPT !.recv = @ + 1]
    /\ UNCHANGED <<dSec, dOut, dSendQ, DuplexOthers>>

\* the next Write of the receiver's call
DuplexRecvWrite ==
    /\ dRecvQ # <<>>
    /\ dOut' = Append(dOut, Head(dRecvQ))
    /\ dRecvQ' = Tail(dRecvQ)
    /\ UNCHANGED <<dSec, dIn, dSendQ, dCalls, DuplexOthers>>

DuplexNext ==
    \/ DuplexPeerWrite
    \/ DuplexSendMsg
    \/ DuplexSendCmd
    \/ DuplexSendWrite
    \/ DuplexRecvMsg
    \/ DuplexRecvWrite

SpecDuplex == DuplexInit /\ [][DuplexNext]_vars

(***************************************************************************)
(* C3: when the two mechanism names differ, each fitting the greeting's    *)
(* 20-byte field and holding no zero byte, no end invokes the mechanism's  *)
(* Handshake or writes handshake data, an Open that has returned has       *)
(* returned the mechanism-mismatch error, and once nothing more can happen *)
(* both have.                                                              *)
(***************************************************************************)
C3_Plain(name) ==
    Len(name) <= 20 /\ \A i \in 1..Len(name) : name[i] # 0

\* no end can take another step: each Open has returned or waits for a
\* greeting that is not there
C3_Quiet ==
    \A e \in Ends :
        \/ oPc[e] \in {"failed", "open"}
        \/ oPc[e] = "greet_read" /\ oGreet[e] = <<>>

C3_NoHandshake ==
    \A e \in Ends :
        /\ ~oShook[e]
        /\ oMeta[e] = <<>>
        /\ oPc[e] \in {"start", "greet_read", "failed"}
        /\ oPc[e] = "failed" => oErr[e].kind = "errBadSec"
        /\ C3_Quiet => oPc[e] = "failed"

C3_MismatchFails ==
    (/\ oCfg["A"].sec # oCfg["B"].sec
     /\ C3_Plain(oCfg["A"].sec)
     /\ C3_Plain(oCfg["B"].sec)) => C3_NoHandshake

\* the claim as written: for any two names that differ
C3_AsWritten ==
    oCfg["A"].sec # oCfg["B"].sec => C3_NoHandshake

\* NULL against PLAIN: both Opens have returned the mismatch error
C3_Witness ==
    /\ oCfg["A"].sec = <<78, 85, 76, 76>>
    /\ oCfg["B"].sec = <<80, 76, 65, 73, 78>>
    /\ \A e \in Ends : oPc[e] = "failed" /\ oErr[e].kind = "errBadSec"

(***************************************************************************)
(* C4: once greeting and handshake have succeeded, Open succeeds exactly   *)
(* when the type the peer declared is in the row the matrix lists for the  *)
(* local type; otherwise (no peer type included) it fails with the         *)
(* incompatibility error that names both types.  Local REQ with peer REP   *)
(* succeeds, local REQ with peer PUB fails.                                *)
(***************************************************************************)
\* the row of the local type, the matrix keyed by (local, peer)
C4_Row(local) == {p \in SocketTypes : <<local, p>> \in Listed}

C4_ReqRepOpens ==
    \A e \in Ends :
        (oCfg[e].typ = "REQ" /\ oCfg[Other(e)].typ = "REP") =>
            oErr[e].kind # "not compatible"

(***************************************************************************)
(* C5: after a successful Open, conn.Peer.Server is the server flag the    *)
(* peer was opened with.                                                   *)
(***************************************************************************)
C5_PeerServerFlag ==
    \A e \in Ends :
        oPc[e] = "open" => oPeer[e].Server = oCfg[Other(e)].server

(***************************************************************************)
(* What the claims about SpecSub speak of.                                 *)
(***************************************************************************)
\* k is a prefix of topic, byte by byte
IsPrefixOf(k, topic) ==
    Len(k) <= Len(topic) /\ \A i \in 1..Len(k) : topic[i] = k[i]

\* the current topic set after the subscribe calls of a log: added by a
\* first byte of 1 and not since removed by a first byte of 0
RECURSIVE CurrentTopics(_)
CurrentTopics(log) ==
    IF log = <<>> THEN {}
    ELSE LET v == log[Len(log)]
             before == CurrentTopics(Take(log, Len(log) - 1))
         IN  IF v[1] = 1 THEN before \cup {From(v, 2)}
             ELSE IF v[1] = 0 THEN before \ {From(v, 2)}
             ELSE before

\* the result of every lookup that is about to return is the answer on the
\* topic set of the subscribe calls made so far
LookupsAnswerTheLog ==
    \A t \in Callers :
        (sCall[t].op = "subscribed" /\ sPc[t] = "runlock") =>
            (sCall[t].res <=>
                \E k \in CurrentTopics(sLog) : IsPrefixOf(k, sCall[t].topic))

(***************************************************************************)
(* C7: whenever subscribed(topic) returns, it returns true exactly when    *)
(* the current topic set (added by a first byte of 1, not since removed by *)
(* a first byte of 0) holds a prefix of topic, the empty topic being a     *)
(* prefix of every topic.                                                  *)
(***************************************************************************)
C7_PrefixMatch ==
    /\ LookupsAnswerTheLog
    /\ sTopics = CurrentTopics(sLog)

\* "A" was subscribed and unsubscribed, and a lookup of "ABC" is false
C7_Witness ==
    /\ sLog = <<<<1, 65>>, <<0, 65>>>>
    /\ \E t \in Callers :
           /\ sPc[t] = "runlock"
           /\ sCall[t].topic = <<65, 66, 67>>
           /\ ~sCall[t].res

\* "A" is subscribed: a lookup of "ABC" is true
C7_WitnessMatch ==
    /\ sLog = <<<<1, 65>>>>
    /\ \E t \in Callers :
           /\ sPc[t] = "runlock"
           /\ sCall[t].topic = <<65, 66, 67>>
           /\ sCall[t].res

(***************************************************************************)
(* C8: in every interleaving of lookups and subscribe calls, no lookup     *)
(* reads the topic set while a subscribe holds it (a writer excludes       *)
(* readers and writers), every call can still return, and every lookup     *)
(* answers on the topic set as it is between two subscribe calls.          *)
(***************************************************************************)
\* a writer in its critical section excludes readers and other writers
C8_Exclusion ==
    \A t \in Callers :
        sPc[t] \in {"switch", "unlock", "panicked"} =>
            /\ sReaders = {}
            /\ \A u \in Callers \ {t} :
                   sPc[u] \notin {"switch", "unlock", "panicked", "range",
                                  "runlock"}

\* no call has ended without returning, and none waits for a lock that
\* will not be released
C8_CallsCanReturn ==
    \A t \in Callers :
        /\ sPc[t] # "panicked"
        /\ sPc[t] \in {"lock", "rlock"} =>
               (sWriter # 0 => sPc[sWriter] # "panicked")

C8_ConcurrentLookups ==
    /\ C8_Exclusion
    /\ C8_CallsCanReturn
    /\ LookupsAnswerTheLog

\* two lookups hold the read lock together while a subscribe awaits it
C8_ReadersOverlap ==
    /\ Cardinality(sReaders) = 2
    /\ sWriter # 0


(***************************************************************************)
(* What the claims about SpecWire speak of: the items the last call took.  *)
(***************************************************************************)
\* the bytes of a sequence of items
RECURSIVE Flatten(_)
Flatten(q) == IF q = <<>> THEN <<>> ELSE q[1].bytes \o Flatten(Tail(q))

\* the bodies of the first n items
Bodies(q, n) == [j \in 1..n |-> q[j].body]

\* the items are the frames of one whole message: well-formed frames, the
\* last one with the more bit clear
WholeMsg(t) ==
    /\ t # <<>>
    /\ \A i \in 1..Len(t) : t[i].kind = "frame"
    /\ t[Len(t)].fl % 2 = 0

\* some frame of the items has the command bit
CmdKind(t) == \E i \in 1..Len(t) : (t[i].fl \div 2) % 2 = 1

\* a PONG command frame on the wire
PongFrame == <<2, 5, 4, 80, 79, 78, 71>>

RECURSIVE Pongs(_)
Pongs(n) == IF n = 0 THEN <<>> ELSE PongFrame \o Pongs(n - 1)

(***************************************************************************)
(* C9: a long header that declares a length above the signed 64-bit        *)
(* maximum ends the call with the overflow error right after its 9 bytes:  *)
(* the call reads nothing past them, appends no frame for it (the frames   *)
(* read before it stay), and writes nothing; the overflow error has no     *)
(* other cause.                                                            *)
(***************************************************************************)
C9_OverflowRejected ==
    /\ wIn = Flatten(wPeer)
    /\ wRet.op # "none" =>
        LET t == wRet.took
        IN  /\ \A i \in 1..Len(t) :
                 t[i].kind = "oversize" =>
                    /\ i = Len(t)
                    /\ Len(t[i].bytes) = 9
                    /\ wRet.err = "errOverflow"
                    /\ wRet.left = Flatten(wRet.unread)
                    /\ wRet.wrote = <<>>
                    /\ wRet.cmd = NoCmd
                    /\ wRet.op = "RecvMsg" =>
                         /\ wRet.msg.err = "errOverflow"
                         /\ wRet.msg.Frames = Bodies(t, Len(t) - 1)
            /\ wRet.err = "errOverflow" =>
                 t # <<>> /\ t[Len(t)].kind = "oversize"

\* RecvMsg met the oversize header after one frame with the more bit
C9_Witness ==
    /\ wRet.op = "RecvMsg"
    /\ wRet.err = "errOverflow"
    /\ Len(wRet.took) = 2
    /\ Len(wRet.msg.Frames) = 1

(***************************************************************************)
(* C10: a whole message that is command-kind and has more or fewer than    *)
(* one frame makes RecvMsg and RecvCmd return a protocol error, with no    *)
(* decoded command; a command-kind message is returned without error only  *)
(* when it has exactly one frame.                                          *)
(***************************************************************************)
C10_CommandOneFrame ==
    wRet.op # "none" =>
        LET t == wRet.took
        IN  /\ (WholeMsg(t) /\ CmdKind(t) /\ Len(t) # 1) =>
                 /\ wRet.err \in {"empty command", "invalid length command"}
                 /\ wRet.cmd = NoCmd
                 /\ wRet.op = "RecvMsg" => wRet.msg.err = wRet.err
            /\ (WholeMsg(t) /\ CmdKind(t) /\ wRet.err = "nil") => Len(t) = 1

\* RecvMsg read a command-kind message of two frames
C10_Witness ==
    /\ wRet.op = "RecvMsg"
    /\ WholeMsg(wRet.took) /\ CmdKind(wRet.took) /\ Len(wRet.took) = 2
    /\ wRet.err = "invalid length command"

(***************************************************************************)
(* C6: RecvMsg writes exactly one PONG command frame when the message it   *)
(* read is a PING command, and writes nothing for any other message; so    *)
(* the bytes the connection has written are as many PONG frames as RecvMsg *)
(* took PING commands.                                                     *)
(***************************************************************************)
C6_PongPerPing ==
    /\ wOut = Pongs(wPings)
    /\ wRet.op = "RecvMsg" =>
        IF IsPing(wRet.took)
        THEN wRet.wrote = PongFrame /\ wRet.err = "nil"
        ELSE wRet.wrote = <<>>

\* two PINGs taken, the second with a body, two PONGs written
C6_Witness ==
    /\ wRet.op = "RecvMsg"
    /\ IsPing(wRet.took)
    /\ wRet.msg.Frames = <<<<9>>>>
    /\ wPings = 2
    /\ wOut = PongFrame \o PongFrame

(***************************************************************************)
(* C2: SendMsg writes the frames of a message in order, the more bit set   *)
(* on every frame but the last, and the peer's calls take what was written *)
(* to it in the order of writing, one whole message per call: the k-th     *)
(* call, when it is RecvMsg and the k-th thing written was an ordinary     *)
(* message, returns exactly the frames of that message as one ordinary     *)
(* message, and the bytes not yet read are exactly the later writes.       *)
(***************************************************************************)
\* the writes that put bytes on the transport (SendMsg of no frame does not)
Written(log) == SelectSeq(log, LAMBDA it : it.bytes # <<>>)

\* short frames of an ordinary message on the wire
RECURSIVE C2_Wire(_)
C2_Wire(frames) ==
    IF frames = <<>> THEN <<>>
    ELSE <<IF Len(frames) > 1 THEN 1 ELSE 0, Len(frames[1])>>
         \o frames[1] \o C2_Wire(Tail(frames))

C11_NotACommand ==
    wRet.op = "RecvCmd" =>
        LET t == wRet.took
        IN  /\ (WholeMsg(t) /\ ~CmdKind(t)) =>
                 wRet.err = "ErrBadFrame" /\ wRet.cmd = NoCmd
            /\ wRet.err = "ErrBadFrame" => WholeMsg(t) /\ ~CmdKind(t)
            /\ wRet.err # "nil" => wRet.cmd = NoCmd
            /\ wRet.err = "nil" =>
                 /\ WholeMsg(t) /\ CmdKind(t) /\ Len(t) = 1
                 /\ LET b == t[1].body
                    IN  /\ Len(b) >= 1 + b[1]
                        /\ wRet.cmd.Name = [j \in 1..b[1] |-> b[j + 1]]
                        /\ wRet.cmd.Body =
                               [j \in 1..(Len(b) - 1 - b[1]) |-> b[j + 1 + b[1]]]

\* RecvCmd read an ordinary frame that holds the bytes of a command
C11_Witness ==
    /\ wRet.op = "RecvCmd"
    /\ Len(wRet.took) = 1
    /\ wRet.took[1].fl = 0
    /\ wRet.took[1].body = PingPayload
    /\ wRet.err = "ErrBadFrame"
    /\ wRet.cmd = NoCmd

(***************************************************************************)
(* C12: a command that SendCmd accepts travels as one frame with the       *)
(* command bit set and the more bit clear, whose payload is the name       *)
(* length, the name and the body, and RecvCmd on the peer returns the same *)
(* name and the same body; PING with an empty body comes back as PING with *)
(* an empty body.                                                          *)
(***************************************************************************)
\* the frame of a command on the wire
C12_Wire(name, body) ==
    LET n == 1 + Len(name) + Len(body)
    IN  (IF n <= 255 THEN <<2, n>>
         ELSE <<6, 0, 0, 0, 0, 0, 0, n \div 256, n % 256>>)
        \o <<Len(name)>> \o name \o body

C12_CmdRoundTrip ==
    \A e \in Ends :
        LET sent == Written(cOut[Other(e)])
            got == cRecv[e]
        IN  /\ \A k \in 1..Len(got) :
                 (sent[k].via = "SendCmd" /\ got[k].op = "RecvCmd") =>
                    /\ got[k].err = "nil"
                    /\ got[k].cmd = [Name |-> sent[k].name, Body |-> sent[k].body]
            /\ \A k \in 1..Len(cOut[e]) :
                 cOut[e][k].via = "SendCmd" =>
                    IF Len(cOut[e][k].name) <= 255
                    THEN cOut[e][k].bytes =
                             C12_Wire(cOut[e][k].name, cOut[e][k].body)
                    ELSE cOut[e][k].bytes = <<>>

\* PING with an empty body, then X with a 255-byte body, came back from two
\* RecvCmd calls
C12_Witness ==
    \E e \in Ends :
        /\ Len(cRecv[e]) = 2
        /\ cOut[Other(e)][1].via = "SendCmd"
        /\ cOut[Other(e)][2].via = "SendCmd"
        /\ cRecv[e][1] = [op |-> "RecvCmd", msg |-> NoMsg,
                          cmd |-> [Name |-> CmdPing, Body |-> <<>>],
                          err |-> "nil"]
        /\ cRecv[e][2].op = "RecvCmd"
        /\ Len(cRecv[e][2].cmd.Body) = 255

(***************************************************************************)
(* C13: Open goes through greeting write, greeting read and mechanism-name *)
(* check, security Handshake, socket-type check, in that order and one     *)
(* after the success of the other; an error at any step ends it as failed, *)
(* after which it does nothing more; it returns a connection only when     *)
(* every step succeeded, and an error otherwise.                           *)
(***************************************************************************)
\* the steps Open may take, as <<from, to>>
C13_Order ==
    {<<"start", "greet_read">>, <<"greet_read", "handshake">>,
     <<"handshake", "handshake_read">>, <<"handshake_read", "open">>}
    \cup ({"start", "greet_read", "handshake", "handshake_read"} \X {"failed"})

C13_Step(e) ==
    /\ oPc'[e] # oPc[e] => <<oPc[e], oPc'[e]>> \in C13_Order
    /\ oPc[e] \in {"failed", "open"} =>
         /\ oPc'[e] = oPc[e] /\ oErr'[e] = oErr[e] /\ oPeer'[e] = oPeer[e]
         /\ oShook'[e] = oShook[e]
         /\ Len(oGreet'[Other(e)]) <= Len(oGreet[Other(e)])
         /\ Len(oMeta'[Other(e)]) <= Len(oMeta[Other(e)])
    /\ (oPc'[e] = "failed") <=> (oErr'[e].kind # "nil")
    /\ oPc'[e] = "open" => oShook'[e] /\ oPeer'[e].Meta # NoMeta
    /\ oShook'[e] =>
         /\ oPc'[e] \in {"handshake_read", "open", "failed"}
         /\ Len(oCfg[e].sec) <= MechanismLen
         /\ Len(oCfg[Other(e)].sec) <= MechanismLen
         /\ asString(copyMechanism(oCfg[Other(e)].sec)) = oCfg[e].sec
    /\ oMeta'[Other(e)] # <<>> => oShook'[e]
    /\ oPeer'[e].Meta # NoMeta => oShook'[e]

C13_HandshakeOrder == [][\A e \in Ends : C13_Step(e)]_vars

\* both ends went through every step: one Open returned its connection, the
\* other failed at the last step
C13_Witness ==
    /\ oPc["A"] = "open"
    /\ oPc["B"] = "failed"
    /\ oErr["B"].kind = "not compatible"
    /\ oShook["A"] /\ oShook["B"]

(***************************************************************************)
(* C14: with one caller of SendMsg / SendCmd and one concurrent caller of  *)
(* RecvMsg, the bytes of each frame reach the channel as one unit, header  *)
(* then body, and the frames of one message follow one another: between    *)
(* two writes of one call there is no byte of another call.                *)
(***************************************************************************)
C14_FramesWhole ==
    LET log == SelectSeq(dOut, LAMBDA w : w.bytes # <<>>)
    IN  \A i, j \in 1..Len(log) :
            (i < j /\ log[i].by = log[j].by /\ log[i].call = log[j].call) =>
                \A k \in i..j :
                    log[k].by = log[i].by /\ log[k].call = log[i].call

(***************************************************************************)
(* C15: when reading a message fails (end of stream, short read, oversized *)
(* length, decrypt failure) after k frames of it were received, RecvMsg    *)
(* returns a non-nil error and a message whose error field is that error   *)
(* and whose frames are those k frames in order; a message returned with a *)
(* nil error has no error in its field.                                    *)
(***************************************************************************)
\* the errors a failing item can end a read with
C15_Errors(kind) ==
    CASE kind = "short" -> {"EOF", "ErrUnexpectedEOF"}
      [] kind = "oversize" -> {"errOverflow"}
      [] kind = "garbled" -> {"errDecrypt"}
      [] OTHER -> {}

C15_PartialOnFailure ==
    wRet.op = "RecvMsg" =>
        LET t == wRet.took
        IN  /\ wRet.err # "nil" => wRet.msg.err = wRet.err
            /\ wRet.err = "nil" => wRet.msg.err = "nil"
            /\ (t # <<>> /\ t[Len(t)].kind # "frame") =>
                 /\ wRet.err \in C15_Errors(t[Len(t)].kind)
                 /\ wRet.msg.Frames = Bodies(t, Len(t) - 1)
            /\ ((\A i \in 1..Len(t) : t[i].kind = "frame")
                    /\ (t = <<>> \/ t[Len(t)].fl % 2 = 1)) =>
                 /\ wRet.err = "EOF"
                 /\ wRet.msg.Frames = Bodies(t, Len(t))

\* a frame with the more bit, then a frame the mechanism refuses
C15_Witness ==
    /\ wRet.op = "RecvMsg"
    /\ Len(wRet.took) = 2
    /\ wRet.took[2].kind = "garbled"
    /\ wRet.err = "errDecrypt"
    /\ wRet.msg.err = "errDecrypt"
    /\ wRet.msg.Frames = <<wRet.took[1].body>>

\* the stream ended in the middle of the second frame
C15_WitnessShort ==
    /\ wRet.op = "RecvMsg"
    /\ Len(wRet.took) = 2
    /\ wRet.took[2].kind = "short"
    /\ wRet.msg.err = "ErrUnexpectedEOF"
    /\ Len(wRet.msg.Frames) = 1

C17_CommandBodyOnly ==
    (wRet.op = "RecvMsg" /\ wRet.err = "nil") =>
        LET t == wRet.took
        IN  /\ WholeMsg(t)
            /\ CmdKind(t) =>
                 /\ wRet.msg.Type = "CmdMsg"
                 /\ Len(t) = 1
                 /\ LET b == t[1].body
                        body == [j \in 1..(Len(b) - 1 - b[1]) |-> b[j + 1 + b[1]]]
                    IN  wRet.msg.Frames =
                            IF Len(b) = 1 + b[1] THEN <<>> ELSE <<body>>
            /\ ~CmdKind(t) =>
                 /\ wRet.msg.Type = "UsrMsg"
                 /\ wRet.msg.Frames = Bodies(t, Len(t))

\* RecvMsg returned the command X, whose payload holds no body
C17_Witness ==
    /\ wRet.op = "RecvMsg"
    /\ wRet.err = "nil"
    /\ Len(wRet.took) = 1
    /\ wRet.took[1].fl = 2
    /\ wRet.took[1].body = XPayload
    /\ wRet.msg = [Frames |-> <<>>, Type |-> "CmdMsg", err |-> "nil"]

\* RecvMsg returned a PING with a body as the one frame of that body
C17_WitnessBody ==
    /\ wRet.op = "RecvMsg"
    /\ wRet.took # <<>>
    /\ wRet.took[1].body = PingBodyPayload
    /\ wRet.msg = [Frames |-> <<<<9>>>>, Type |-> "CmdMsg", err |-> "nil"]

(***************************************************************************)
(* C18: the message read returns is command-kind exactly when one of its   *)
(* frames, at whatever position, has the command bit; read goes on after   *)
(* a frame with the more bit and after no other, so it returns without     *)
(* error exactly at the first frame whose more bit is clear.               *)
(***************************************************************************)
\* errors of RecvMsg and RecvCmd that follow a read without error
C18_AfterRead ==
    {"nil", "ErrBadFrame", "empty command", "invalid length command",
     "ErrBadCmd", "ErrUnexpectedEOF"}

C18_KindAndEnd ==
    /\ LET n == read(wIn, wEof, wSec)
           t == Take(wPeer, ItemsIn(wPeer, n.nread))
       IN  n.st = "done" =>
             /\ \A i \in 1..(Len(t) - 1) :
                    t[i].kind = "frame" /\ t[i].fl % 2 = 1
             /\ n.msg.err = "nil" <=> WholeMsg(t)
             /\ n.msg.err = "nil" =>
                  /\ (n.msg.Type = "CmdMsg") <=> CmdKind(t)
                  /\ n.msg.Frames = Bodies(t, Len(t))
    /\ wRet.op # "none" =>
         LET t == wRet.took
         IN  /\ \A i \in 1..(Len(t) - 1) :
                    t[i].kind = "frame" /\ t[i].fl % 2 = 1
             /\ WholeMsg(t) => wRet.err \in C18_AfterRead
             /\ (wRet.op = "RecvMsg" /\ WholeMsg(t)) =>
                    ((wRet.msg.Type = "CmdMsg") <=> CmdKind(t))
             /\ (wRet.op = "RecvCmd" /\ WholeMsg(t)) =>
                    ((wRet.err = "ErrBadFrame") <=> ~CmdKind(t))

\* the command bit on the first of two frames only: a command-kind message
C18_Witness ==
    /\ wRet.op = "RecvMsg"
    /\ Len(wRet.took) = 2
    /\ wRet.took[1].fl = 3
    /\ wRet.took[2].fl = 0
    /\ wRet.msg.Type = "CmdMsg"
    /\ Len(wRet.msg.Frames) = 2

(***************************************************************************)
(* C19: every PING command that arrives is answered with a PONG command,   *)
(* whether RecvMsg or RecvCmd took it: the call that took a PING wrote one *)
(* PONG frame.                                                             *)
(***************************************************************************)
C19_PingAlwaysAnswered ==
    (wRet.op \in {"RecvMsg", "RecvCmd"} /\ IsPing(wRet.took)) =>
        wRet.wrote = PongFrame

(***************************************************************************)
(* C20: every call of subscribe releases the write lock before control     *)
(* leaves it, whatever its message (no frame, an empty first frame, a      *)
(* first byte that is neither 0 nor 1, which leaves the topic set as it    *)
(* is): the lock is held only by a call still running in subscribe.        *)
(***************************************************************************)
C20_LockReleased ==
    /\ sWriter # 0 => sPc[sWriter] \in {"lock_wait", "switch", "unlock"}
    /\ \A t \in Callers :
           (sPc[t] = "unlock" /\ sCall[t].msg[1][1] \notin {0, 1}) =>
               sTopics = CurrentTopics(Take(sLog, Len(sLog) - 1))

====
